---------------------------- MODULE Spec2Model ----------------------------
(***************************************************************************)
(* A model of the nutrition-dashboard repository:                          *)
(*   data_cleaning.py  clean_data     raw CSV -> cleaned CSV                *)
(*   analysis_main.py  analyze_data   cleaned CSV -> image artifacts        *)
(*   dashboard.py      the Streamlit script, run once per user interaction  *)
(* A CSV file is modelled by the table pandas parses from it: its columns   *)
(* and its rows in file order.  A behaviour is one run of one entry point.  *)
(***************************************************************************)
EXTENDS Integers, Sequences, FiniteSets, TLC

VARIABLES
    prog,        \* the entry point this run executes: "clean", "batch", "dash"
    pc,          \* the position of the entry point in its code
    outcome,     \* how the entry point ended: "running", "returned", "raised:<error>"
    stdout,      \* the lines printed so far (their kind)
    rawCsv,      \* the file at clean_data's input_path
    outputCsv,   \* the file at clean_data's output_path
    df_raw,      \* clean_data's local df / df_clean
    cleanedCsv,  \* the file 'cleaned_data.csv' read by analyze_data and the dashboard
    outDir,      \* whether analyze_data's output_dir exists
    artifacts,   \* the image files written into output_dir
    df,          \* the loaded cleaned table (analyze_data's local, the dashboard's global)
    batch,       \* analyze_data's locals: the result tables of its queries
    cache,       \* st.cache_data's entry for load_data()
    fileReads,   \* how often the dashboard read 'cleaned_data.csv'
    widgets,     \* the dashboard's widget state (the user's selections)
    page         \* what the last script run rendered

vars == <<prog, pc, outcome, stdout, rawCsv, outputCsv, df_raw, cleanedCsv,
          outDir, artifacts, df, batch, cache, fileReads, widgets, page>>

----------------------------------------------------------------------------
(* Bounds of the model.                                                     *)

MaxRawRows == 3

----------------------------------------------------------------------------
(* Sequences.                                                               *)

Range(s) == {s[i] : i \in 1..Len(s)}

RECURSIVE SeqsUpTo(_, _)
SeqsUpTo(S, n) ==
    IF n = 0 THEN {<<>>}
    ELSE LET shorter == SeqsUpTo(S, n - 1)
         IN  shorter \cup {Append(s, x) : s \in {t \in shorter : Len(t) = n - 1}, x \in S}

----------------------------------------------------------------------------
(* data_cleaning.py                                                         *)

\* a missing cell of a parsed table
NaN == "NaN"

isna(cell) == cell = NaN

cols_to_keep ==
    << "YearStart", "LocationAbbr", "LocationDesc", "Class", "Topic", "Question",
       "Data_Value", "Data_Value_Unit", "StratificationCategory1", "Stratification1",
       "GeoLocation" >>

NoFile == [exists |-> FALSE, columns |-> <<>>, rows |-> <<>>]
NoFrame == [columns |-> <<>>, rows |-> <<>>]

\* pd.read_csv: the frame of an existing file
read_csv(file) == [columns |-> file.columns, rows |-> file.rows]

\* DataFrame.to_csv(path, index=False): the file holding the frame
to_csv(frame) == [exists |-> TRUE, columns |-> frame.columns, rows |-> frame.rows]

\* a mutant of dropna: a row is dropped when any of its cells is missing
dropna_any(frame, subset) ==
    [frame EXCEPT !.rows = SelectSeq(frame.rows,
        LAMBDA r : \A c \in Range(frame.columns) : ~isna(r[c]))]

\* df.dropna(subset=[...]): the rows with no missing cell in the subset's columns
\* (called only when the subset's columns exist; pandas raises KeyError otherwise)
dropna(frame, subset) ==
    [frame EXCEPT !.rows = SelectSeq(frame.rows,
        LAMBDA r : \A c \in Range(subset) : ~isna(r[c]))]

\* missing_cols = [c for c in cols_to_keep if c not in df_clean.columns]
missing_cols(frame) ==
    SelectSeq(cols_to_keep, LAMBDA c : c \notin Range(frame.columns))

\* a mutant of the projection: every column of the frame is kept
select_all(frame, columns) == frame

\* df_clean[cols_to_keep]: the frame restricted to the listed columns, in their order
select(frame, columns) ==
    [columns |-> columns,
     rows |-> [i \in 1..Len(frame.rows) |->
                  [c \in Range(columns) |-> frame.rows[i][c]]]]

\* df.rename(columns={old: new})
rename(frame, old, new) ==
    LET nm(c) == IF c = old THEN new ELSE c
    IN  [columns |-> [i \in 1..Len(frame.columns) |-> nm(frame.columns[i])],
         rows |-> [i \in 1..Len(frame.rows) |->
                      [c \in {nm(k) : k \in Range(frame.columns)} |->
                          frame.rows[i][IF c = new /\ old \in Range(frame.columns)
                                        THEN old ELSE c]]]]


----------------------------------------------------------------------------
(* The cleaned table and the pandas operations of the queries.  A cleaned   *)
(* frame is the sequence of its rows; a row is a record of the columns the  *)
(* queries read (Topic, Data_Value_Unit and GeoLocation are read by none).  *)
(* Data_Value is a number; a mean is the exact fraction sum / count.        *)

q_obesity    == "Percent of adults aged 18 years and older who have obesity"
q_inactivity == "Percent of adults who engage in no leisure-time physical activity"
c_obesity    == "Obesity / Weight Status"
c_activity   == "Physical Activity"

\* the strings of the model in Python's string order (groupby sorts its keys)
StringOrder ==
    << "$75,000 or greater", "AK", "AL", "Alabama", "Alaska", "Female", "Less than $15,000",
       "Male", c_obesity, q_obesity, q_inactivity, c_activity, "Total" >>

StrRank(s) == CHOOSE i \in 1..Len(StringOrder) : StringOrder[i] = s

\* v < w for two cells of one column
CellLess(column, v, w) ==
    IF column = "Year" THEN v < w ELSE StrRank(v) < StrRank(w)

RECURSIVE GCD(_, _)
GCD(a, b) == IF b = 0 THEN a ELSE GCD(b, a % b)

RECURSIVE Sum(_)
Sum(s) == IF s = <<>> THEN 0 ELSE Head(s) + Sum(Tail(s))

Frac(n, d) == LET g == GCD(IF n < 0 THEN -n ELSE n, d) IN [num |-> n \div g, den |-> d \div g]

FracLess(a, b) == a.num * b.den < b.num * a.den

\* Series.mean() of a non-empty series of numbers
mean(values) == Frac(Sum(values), Len(values))

Column(frame, c) == [i \in 1..Len(frame) |-> frame[i][c]]

\* Series.max() of the Year column; NaN (here YearNaN) for an empty frame
YearNaN == -1
RECURSIVE SeqMax(_)
SeqMax(s) == IF Len(s) = 1 THEN s[1]
             ELSE LET m == SeqMax(Tail(s)) IN IF s[1] > m THEN s[1] ELSE m
year_max(frame) == IF frame = <<>> THEN YearNaN ELSE SeqMax(Column(frame, "Year"))

\* Series.unique(): the distinct values in order of first appearance
RECURSIVE unique(_)
unique(s) ==
    IF s = <<>> THEN <<>>
    ELSE LET front == unique(SubSeq(s, 1, Len(s) - 1))
             last  == s[Len(s)]
         IN  IF last \in Range(front) THEN front ELSE Append(front, last)

\* the key of a row under groupby(by)
KeyOf(row, by) == [c \in Range(by) |-> row[c]]

\* the order of two group keys: lexicographic over the columns of by
RECURSIVE KeyLess(_, _, _)
KeyLess(k1, k2, by) ==
    IF by = <<>> THEN FALSE
    ELSE LET c == Head(by)
         IN  \/ CellLess(c, k1[c], k2[c])
             \/ k1[c] = k2[c] /\ KeyLess(k1, k2, Tail(by))

\* a finite set of keys as the ascending sequence
RECURSIVE SortKeys(_, _)
SortKeys(keys, by) ==
    IF keys = {} THEN <<>>
    ELSE LET least == CHOOSE k \in keys : \A o \in keys \ {k} : KeyLess(k, o, by)
         IN  <<least>> \o SortKeys(keys \ {least}, by)

\* the reduction applied to each group's Data_Value
group_mean(values) == mean(values)

\* frame.groupby(by)['Data_Value'].mean().reset_index():
\* one row per key, in ascending key order, with the group's mean
groupby_mean(frame, by) ==
    LET keys   == SortKeys({KeyOf(frame[i], by) : i \in 1..Len(frame)}, by)
        grp(k) == SelectSeq(frame, LAMBDA r : KeyOf(r, by) = k)
    IN  [g \in 1..Len(keys) |->
            [c \in Range(by) \cup {"Data_Value"} |->
                IF c = "Data_Value" THEN group_mean(Column(grp(keys[g]), "Data_Value"))
                ELSE keys[g][c]]]

Reverse(s) == [i \in 1..Len(s) |-> s[Len(s) + 1 - i]]

\* a stable ascending insertion sort by Data_Value, as numpy sorts a short array
RECURSIVE InsertionSort(_)
InsertionSort(s) ==
    IF s = <<>> THEN <<>>
    ELSE LET front == InsertionSort(SubSeq(s, 1, Len(s) - 1))
             x     == s[Len(s)]
             keep  == SelectSeq(front, LAMBDA r : r.Data_Value <= x.Data_Value)
             rest  == SelectSeq(front, LAMBDA r : r.Data_Value > x.Data_Value)
         IN  keep \o <<x>> \o rest

\* the orders in which an unstable sort may leave rows of equal Data_Value
TieOrders == {"kept", "reversed"}

\* a mutant of the ranking's sort: ascending
sort_values_asc(frame, tie) == InsertionSort(frame)

\* frame.sort_values('Data_Value', ascending=False): pandas reverses the rows, sorts
\* ascending and reverses the result; the default sort (quicksort) is not stable, so
\* rows of equal Data_Value come out in either order
sort_values_desc(frame, tie) ==
    IF tie = "kept" THEN Reverse(InsertionSort(Reverse(frame)))
    ELSE Reverse(InsertionSort(frame))

\* a mutant of tail: one row more than asked for
tail_one_more(frame, n) ==
    SubSeq(frame, IF n < Len(frame) THEN Len(frame) - n ELSE 1, Len(frame))

\* DataFrame.head(n), DataFrame.tail(n): the first and the last n rows
head(frame, n) == SubSeq(frame, 1, IF n < Len(frame) THEN n ELSE Len(frame))
tail(frame, n) == SubSeq(frame, IF n < Len(frame) THEN Len(frame) - n + 1 ELSE 1, Len(frame))


\* pd.merge(left, right, on='LocationAbbr'): the inner join, in the order of the
\* left rows, each with its matching right rows in their order
RECURSIVE merge(_, _)
merge(left, right) ==
    IF left = <<>> THEN <<>>
    ELSE LET l == Head(left)
             matches == SelectSeq(right, LAMBDA r : r.LocationAbbr = l.LocationAbbr)
         IN  [i \in 1..Len(matches) |->
                 [LocationAbbr |-> l.LocationAbbr, Obesity_Rate |-> l.Obesity_Rate,
                  Inactivity_Rate |-> matches[i].Inactivity_Rate]]
             \o merge(Tail(left), right)

\* Series.corr: Pearson's r of the two value columns of the join, kept exact as
\* r = sxy / sqrt(sxx * syy); NaN for fewer than two rows or a constant column
corr(merged) ==
    LET n   == Len(merged)
        x   == Column(merged, "Obesity_Rate")
        y   == Column(merged, "Inactivity_Rate")
        sxy == n * Sum([i \in 1..n |-> x[i] * y[i]]) - Sum(x) * Sum(y)
        sxx == n * Sum([i \in 1..n |-> x[i] * x[i]]) - Sum(x) * Sum(x)
        syy == n * Sum([i \in 1..n |-> y[i] * y[i]]) - Sum(y) * Sum(y)
    IN  IF n < 2 \/ sxx = 0 \/ syy = 0
        THEN [nan |-> TRUE, sxy |-> 0, sxx |-> 0, syy |-> 0]
        ELSE [nan |-> FALSE, sxy |-> sxy, sxx |-> sxx, syy |-> syy]

\* f"{r:.2f}": "nan", or r rounded to hundredths (an exact tie to the even one)
fmt2f(r) ==
    IF r.nan THEN [text |-> "nan", hundredths |-> 0]
    ELSE LET g    == GCD(r.sxy * r.sxy, r.sxx * r.syy)
             num  == (r.sxy * r.sxy) \div g
             den  == (r.sxx * r.syy) \div g
             up   == {m \in 1..100 : (2 * m - 1) * (2 * m - 1) * den <= 40000 * num}
             top  == IF up = {} THEN 0 ELSE CHOOSE m \in up : \A o \in up : o <= m
             tie  == top > 0 /\ (2 * top - 1) * (2 * top - 1) * den = 40000 * num
             mag  == IF tie /\ top % 2 = 1 THEN top - 1 ELSE top
         IN  [text |-> "number", hundredths |-> IF r.sxy < 0 THEN -mag ELSE mag]

----------------------------------------------------------------------------
(* The state before an entry point starts.                                  *)

NoDf == [none |-> TRUE, rows |-> <<>>]
Loaded(rows) == [none |-> FALSE, rows |-> rows]

NoCorr == [nan |-> TRUE, sxy |-> 0, sxx |-> 0, syy |-> 0]

NoBatch ==
    [yearly_trends |-> <<>>, latest_year |-> YearNaN, obesity_geo_sorted |-> <<>>,
     top_10 |-> <<>>, bottom_10 |-> <<>>, demo |-> 1, demo_stats |-> <<>>,
     merged |-> <<>>, correlation |-> NoCorr]

None == "None"

NoWidgets ==
    [selected_year |-> YearNaN, selected_class |-> None, selection |-> None,
     selected_question |-> None, selected_demo |-> None]

NoPage ==
    [elements |-> {}, df_stats |-> <<>>, trend_data |-> <<>>, df_geo |-> <<>>,
     demo_agg |-> <<>>, merged |-> <<>>, corr_coeff |-> NoCorr]

NoCache == [set |-> FALSE, value |-> NoDf, error |-> FALSE]

\* the state in which entry point p starts, given the files it finds
Start(p, raw, cleaned, dir) ==
    /\ prog = p
    /\ pc = "start"
    /\ outcome = "running"
    /\ stdout = <<>>
    /\ rawCsv = raw
    /\ outputCsv = NoFile
    /\ df_raw = NoFrame
    /\ cleanedCsv = cleaned
    /\ outDir = dir
    /\ artifacts = {}
    /\ df = NoDf
    /\ batch = NoBatch
    /\ cache = NoCache
    /\ fileReads = 0
    /\ widgets = NoWidgets
    /\ page = NoPage

----------------------------------------------------------------------------
(* clean_data(input_path, output_path)                                      *)

\* try: df = pd.read_csv(input_path)  except FileNotFoundError: print; return
CleanReadCsv ==
    /\ prog = "clean" /\ pc = "start"
    /\ IF rawCsv.exists
       THEN /\ df_raw' = read_csv(rawCsv)
            /\ stdout' = stdout \o <<"Loading data", "Initial rows">>
            /\ pc' = "dropna"
            /\ UNCHANGED outcome
       ELSE /\ stdout' = stdout \o <<"Loading data", "Error: File not found">>
            /\ pc' = "end"
            /\ outcome' = "returned"
            /\ UNCHANGED df_raw
    /\ UNCHANGED <<prog, rawCsv, outputCsv, cleanedCsv, outDir, artifacts, df, batch,
                   cache, fileReads, widgets, page>>

\* df_clean = df.dropna(subset=['Data_Value']); KeyError when the column is absent
CleanDropNa ==
    /\ prog = "clean" /\ pc = "dropna"
    /\ IF "Data_Value" \in Range(df_raw.columns)
       THEN /\ df_raw' = dropna(df_raw, <<"Data_Value">>)
            /\ stdout' = Append(stdout, "Rows after dropping missing Data_Value")
            /\ pc' = "check_columns"
            /\ UNCHANGED outcome
       ELSE /\ pc' = "end"
            /\ outcome' = "raised:KeyError"
            /\ UNCHANGED <<df_raw, stdout>>
    /\ UNCHANGED <<prog, rawCsv, outputCsv, cleanedCsv, outDir, artifacts, df, batch,
                   cache, fileReads, widgets, page>>

\* if missing_cols: print warning; return
CleanCheckColumns ==
    /\ prog = "clean" /\ pc = "check_columns"
    /\ IF missing_cols(df_raw) # <<>>
       THEN /\ stdout' = Append(stdout, "Warning: Missing columns")
            /\ pc' = "end"
            /\ outcome' = "returned"
       ELSE /\ pc' = "save"
            /\ UNCHANGED <<stdout, outcome>>
    /\ UNCHANGED <<prog, rawCsv, outputCsv, df_raw, cleanedCsv, outDir, artifacts, df,
                   batch, cache, fileReads, widgets, page>>

\* df_clean = df_clean[cols_to_keep]; rename YearStart -> Year; to_csv(output_path)
CleanSave ==
    /\ prog = "clean" /\ pc = "save"
    /\ df_raw' = rename(select(df_raw, cols_to_keep), "YearStart", "Year")
    /\ outputCsv' = to_csv(df_raw')
    /\ stdout' = stdout \o <<"Saving cleaned data", "Data cleaning complete.">>
    /\ pc' = "end"
    /\ outcome' = "returned"
    /\ UNCHANGED <<prog, rawCsv, cleanedCsv, outDir, artifacts, df, batch, cache,
                   fileReads, widgets, page>>


----------------------------------------------------------------------------
(* analyze_data(input_path, output_dir)                                     *)

TopN == 10

demographics == << "Income", "Education", "Age (years)", "Race/Ethnicity" >>

\* a mutant of the 'Total' filter: every stratum passes
is_any_stratum(row) == TRUE

\* df['StratificationCategory1'] == 'Total'
is_total(row) == row.StratificationCategory1 = "Total"

\* df_total.groupby(['Year', 'Class'])['Data_Value'].mean().reset_index()
yearly_trends(frame) ==
    groupby_mean(SelectSeq(frame, is_total), <<"Year", "Class">>)

\* a mutant of the latest year: the latest year among the rows the ranking keeps
latest_year_filtered(frame) ==
    year_max(SelectSeq(frame, LAMBDA r : /\ r.Class = c_obesity
                                         /\ is_total(r)
                                         /\ r.Question = q_obesity))

\* latest_year = df['Year'].max()
latest_year(frame) == year_max(frame)

\* the rows of the batch ranking: obesity, latest year, Total
obesity_geo(frame, year) ==
    SelectSeq(frame, LAMBDA r : /\ r.Year = year
                                /\ r.Class = c_obesity
                                /\ is_total(r)
                                /\ r.Question = q_obesity)

\* df_demo.groupby('Stratification1')['Data_Value'].mean().sort_values().reset_index():
\* the groups' means in ascending order of the mean
RECURSIVE SortByMean(_)
SortByMean(s) ==
    IF s = <<>> THEN <<>>
    ELSE LET front == SortByMean(SubSeq(s, 1, Len(s) - 1))
             x     == s[Len(s)]
             keep  == SelectSeq(front, LAMBDA r : ~FracLess(x.Data_Value, r.Data_Value))
             rest  == SelectSeq(front, LAMBDA r : FracLess(x.Data_Value, r.Data_Value))
         IN  keep \o <<x>> \o rest

demo_stats(frame, demo) ==
    SortByMean(groupby_mean(
        SelectSeq(frame, LAMBDA r : /\ r.Class = c_obesity
                                    /\ r.Question = q_obesity
                                    /\ r.StratificationCategory1 = demo),
        <<"Stratification1">>))

\* df_corr[df_corr['Question'] == q][['LocationAbbr', 'Data_Value']].rename(...)
metric_table(frame, year, question, name) ==
    LET rows == SelectSeq(frame, LAMBDA r : /\ r.Year = year /\ is_total(r)
                                            /\ r.Question = question)
    IN  [i \in 1..Len(rows) |->
            [c \in {"LocationAbbr", name} |->
                IF c = "LocationAbbr" THEN rows[i].LocationAbbr ELSE rows[i].Data_Value]]

\* the join of the obesity and the inactivity table of one year
correlation_join(frame, year) ==
    merge(metric_table(frame, year, q_obesity, "Obesity_Rate"),
          metric_table(frame, year, q_inactivity, "Inactivity_Rate"))

BatchFrame ==
    <<prog, rawCsv, outputCsv, df_raw, cleanedCsv, cache, fileReads, widgets, page>>

\* if not os.path.exists(output_dir): os.makedirs(output_dir)
BatchMakeDirs ==
    /\ prog = "batch" /\ pc = "start"
    /\ outDir' = TRUE
    /\ pc' = "read_csv"
    /\ UNCHANGED <<outcome, stdout, artifacts, df, batch>>
    /\ UNCHANGED BatchFrame

\* df = pd.read_csv(input_path): FileNotFoundError is not caught
BatchReadCsv ==
    /\ prog = "batch" /\ pc = "read_csv"
    /\ stdout' = Append(stdout, "Loading cleaned data")
    /\ IF cleanedCsv.exists
       THEN /\ df' = Loaded(cleanedCsv.rows)
            /\ pc' = "temporal_trends"
            /\ UNCHANGED outcome
       ELSE /\ pc' = "end"
            /\ outcome' = "raised:FileNotFoundError"
            /\ UNCHANGED df
    /\ UNCHANGED <<outDir, artifacts, batch>>
    /\ UNCHANGED BatchFrame

\* --- 1. Temporal Trends ---
BatchTemporalTrends ==
    /\ prog = "batch" /\ pc = "temporal_trends"
    /\ batch' = [batch EXCEPT !.yearly_trends = yearly_trends(df.rows)]
    /\ stdout' = Append(stdout, "Analyzing Temporal Trends...")
    /\ artifacts' = artifacts \cup {"temporal_trends.png"}
    /\ pc' = "geographic"
    /\ UNCHANGED <<outcome, outDir, df>>
    /\ UNCHANGED BatchFrame

\* --- 2. Geographic Analysis (Latest Year) ---
BatchGeographic ==
    /\ prog = "batch" /\ pc = "geographic"
    /\ \E tie \in TieOrders :
         LET year   == latest_year(df.rows)
             sorted == sort_values_desc(obesity_geo(df.rows, year), tie)
         IN  batch' = [batch EXCEPT !.latest_year = year,
                                    !.obesity_geo_sorted = sorted,
                                    !.top_10 = head(sorted, TopN),
                                    !.bottom_10 = tail(sorted, TopN)]
    /\ stdout' = stdout \o <<"Analyzing Geographic Trends...", "Latest year in dataset">>
    /\ artifacts' = artifacts \cup {"geographic_obesity_ranking.png"}
    /\ pc' = "demographic"
    /\ UNCHANGED <<outcome, outDir, df>>
    /\ UNCHANGED BatchFrame

\* --- 3. Demographic Analysis ---: one pass of  for demo in demographics
BatchDemographic ==
    /\ prog = "batch" /\ pc = "demographic"
    /\ LET demo == demographics[batch.demo]
       IN  /\ batch' = [batch EXCEPT !.demo_stats = demo_stats(df.rows, demo),
                                     !.demo = batch.demo + 1]
           /\ artifacts' = artifacts \cup {"demographic_" \o demo \o ".png"}
    /\ stdout' = IF batch.demo = 1 THEN Append(stdout, "Analyzing Demographic Trends...")
                 ELSE stdout
    /\ pc' = IF batch.demo = Len(demographics) THEN "correlation" ELSE "demographic"
    /\ UNCHANGED <<outcome, outDir, df>>
    /\ UNCHANGED BatchFrame

\* --- 4. Correlation Analysis ---: the coefficient is computed and printed whatever
\* the join holds; sns.regplot on an empty join either raises or draws nothing,
\* depending on the plotting library
BatchCorrelation ==
    /\ prog = "batch" /\ pc = "correlation"
    /\ LET merged == correlation_join(df.rows, batch.latest_year)
       IN  /\ batch' = [batch EXCEPT !.merged = merged, !.correlation = corr(merged)]
           /\ \/ /\ stdout' = stdout \o <<"Analyzing Correlations...",
                                         "Correlation: " \o fmt2f(corr(merged)).text,
                                         "Analysis complete.">>
                 /\ artifacts' = artifacts \cup {"correlation_obesity_inactivity.png"}
                 /\ outcome' = "returned"
              \/ /\ merged = <<>>
                 /\ stdout' = stdout \o <<"Analyzing Correlations...",
                                         "Correlation: " \o fmt2f(corr(merged)).text>>
                 /\ outcome' = "raised:ValueError"
                 /\ UNCHANGED artifacts
    /\ pc' = "end"
    /\ UNCHANGED <<outDir, df>>
    /\ UNCHANGED BatchFrame


----------------------------------------------------------------------------
(* dashboard.py: the script Streamlit runs at the start of the session and  *)
(* again after every change of a widget.                                    *)

options ==
    << "1. Background & Intro", "2. Data Cleaning & Stats", "3. Q1: Temporal Trends",
       "4. Q2: Geographic Analysis", "5. Q3: Demographic Analysis",
       "6. Correlation Analysis", "7. Q&A Prep", "8. Summary & Conclusion" >>

demo_cats == << "Income", "Education", "Age (years)", "Race/Ethnicity", "Sex" >>

First(s, default) == IF s = <<>> THEN default ELSE s[1]

\* a stable descending sort of a sequence of years
RECURSIVE SortYearsDesc(_)
SortYearsDesc(s) ==
    IF s = <<>> THEN <<>>
    ELSE LET front == SortYearsDesc(SubSeq(s, 1, Len(s) - 1))
             x     == s[Len(s)]
         IN  SelectSeq(front, LAMBDA y : y >= x) \o <<x>> \o SelectSeq(front, LAMBDA y : y < x)

\* years = sorted(df['Year'].unique(), reverse=True)
years(frame) == SortYearsDesc(unique(Column(frame, "Year")))

\* classes = df['Class'].unique()
classes(frame) == unique(Column(frame, "Class"))

\* questions = df[df['Class'] == selected_class]['Question'].unique()
questions(frame, class) ==
    unique(Column(SelectSeq(frame, LAMBDA r : r.Class = class), "Question"))

\* a mutant of the cache: load_data runs its body at every call
load_data_uncached(c, file) ==
    IF file.exists
    THEN [cache |-> [set |-> TRUE, value |-> Loaded(file.rows), error |-> FALSE],
          value |-> Loaded(file.rows), error |-> FALSE, read |-> 1]
    ELSE [cache |-> [set |-> TRUE, value |-> NoDf, error |-> TRUE],
          value |-> NoDf, error |-> TRUE, read |-> 0]

\* @st.cache_data def load_data(): the first call runs the body and stores what it
\* returned (None too) and the st.error it showed; later calls replay the entry
load_data(c, file) ==
    IF c.set THEN [cache |-> c, value |-> c.value, error |-> c.error, read |-> 0]
    ELSE IF file.exists
    THEN [cache |-> [set |-> TRUE, value |-> Loaded(file.rows), error |-> FALSE],
          value |-> Loaded(file.rows), error |-> FALSE, read |-> 1]
    ELSE [cache |-> [set |-> TRUE, value |-> NoDf, error |-> TRUE],
          value |-> NoDf, error |-> TRUE, read |-> 0]

\* the values the widgets return in a script run: the user's selection where the
\* widget holds one among its options, the option at index 0 (None without options)
\* otherwise; a view's own selectboxes exist only while the view is shown
widget_values(frame, w) ==
    LET year  == IF w.selected_year \in Range(years(frame)) THEN w.selected_year
                 ELSE First(years(frame), YearNaN)
        class == IF w.selected_class \in Range(classes(frame)) THEN w.selected_class
                 ELSE First(classes(frame), None)
        sel   == IF w.selection \in Range(options) THEN w.selection ELSE options[1]
        qs    == questions(frame, class)
    IN  [selected_year |-> year,
         selected_class |-> class,
         selection |-> sel,
         selected_question |->
             IF sel \notin {options[4], options[5]} THEN None
             ELSE IF w.selected_question \in Range(qs) THEN w.selected_question
             ELSE First(qs, None),
         selected_demo |->
             IF sel # options[5] THEN None
             ELSE IF w.selected_demo \in Range(demo_cats) THEN w.selected_demo
             ELSE demo_cats[1]]

\* "2. Data Cleaning & Stats": df[(Class == selected_class) & (Year == selected_year)]
df_stats(frame, w) ==
    SelectSeq(frame, LAMBDA r : r.Class = w.selected_class /\ r.Year = w.selected_year)

\* "3. Q1: Temporal Trends": the selected class's 'Total' rows by (Year, Question)
trend_data(frame, w) ==
    groupby_mean(SelectSeq(frame, LAMBDA r : r.Class = w.selected_class /\ is_total(r)),
                 <<"Year", "Question">>)

\* "4. Q2: Geographic Analysis": the rows of the selected year and question, 'Total'
df_geo(frame, w) ==
    SelectSeq(frame, LAMBDA r : /\ r.Year = w.selected_year
                                /\ r.Question = w.selected_question
                                /\ is_total(r))

\* "5. Q3: Demographic Analysis": the means by Stratification1, in key order
demo_agg(frame, w) ==
    groupby_mean(SelectSeq(frame, LAMBDA r : /\ r.StratificationCategory1 = w.selected_demo
                                             /\ r.Question = w.selected_question
                                             /\ r.Year = w.selected_year),
                 <<"Stratification1">>)

\* q_obesity in q: no question of the model is a proper part of another
str_in(part, whole) == part = whole

\* available_questions = df_corr['Question'].unique(); any(q in a for a in available)
has_question(frame, w, q) ==
    \E r \in Range(frame) : r.Year = w.selected_year /\ is_total(r) /\ str_in(q, r.Question)

\* what one run of the script shows, given what load_data returned
render(loaded, error, w, tie) ==
    IF loaded.none
    THEN [NoPage EXCEPT !.elements = {"title"} \cup (IF error THEN {"error: not found"} ELSE {})]
    ELSE
    LET frame   == loaded.rows
        sidebar == {"title", "sidebar: Select Year", "sidebar: Select Category",
                    "sidebar: Go to", w.selection}
        shown(e, p) == [p EXCEPT !.elements = sidebar \cup e]
    IN  CASE w.selection = options[2] ->
               LET t == df_stats(frame, w)
               IN  shown(IF t # <<>> THEN {"metric: Mean Value", "metric: Median Value",
                                          "metric: Total Records", "dataframe"}
                         ELSE {"warning: No data available"},
                         [NoPage EXCEPT !.df_stats = t])
          [] w.selection = options[3] ->
               shown({"chart: trend"}, [NoPage EXCEPT !.trend_data = trend_data(frame, w)])
          [] w.selection = options[4] ->
               shown({"selectbox: Select Metric", "chart: ranking"},
                     [NoPage EXCEPT !.df_geo = sort_values_desc(df_geo(frame, w), tie)])
          [] w.selection = options[5] ->
               shown({"selectbox: Select Demographic Category", "selectbox: Select Metric",
                      "chart: demographic"},
                     [NoPage EXCEPT !.demo_agg = demo_agg(frame, w)])
          [] w.selection = options[6] ->
               IF has_question(frame, w, q_obesity) /\ has_question(frame, w, q_inactivity)
               THEN LET merged == correlation_join(frame, w.selected_year)
                    IN  IF merged # <<>>
                        THEN shown({"metric: Correlation Coefficient", "chart: scatter"},
                                   [NoPage EXCEPT !.merged = merged,
                                                  !.corr_coeff = corr(merged)])
                        ELSE shown({"warning: Not enough data"}, NoPage)
               ELSE shown({"warning: Required data not found"}, NoPage)
          [] OTHER -> shown({"markdown"}, NoPage)

MaxFileReads == 2

DashFrame == <<prog, rawCsv, outputCsv, df_raw, cleanedCsv, outDir, artifacts, batch,
               outcome, stdout>>

\* one run of the script with the widget state w
ScriptRun(w) ==
    LET ld == load_data(cache, cleanedCsv)
        wv == IF ld.value.none THEN NoWidgets ELSE widget_values(ld.value.rows, w)
    IN  /\ cache' = ld.cache
        /\ fileReads' = fileReads + ld.read
        /\ df' = ld.value
        /\ widgets' = wv
        /\ \E tie \in (IF wv.selection = options[4] THEN TieOrders ELSE {"kept"}) :
              page' = render(ld.value, ld.error, wv, tie)
        /\ pc' = "idle"
        /\ UNCHANGED DashFrame

\* the user may act on a widget once the page shows it
Interactive == prog = "dash" /\ pc = "idle" /\ ~df.none /\ fileReads <= MaxFileReads

\* the session starts: the first run of the script
DashStart ==
    /\ prog = "dash" /\ pc = "start"
    /\ ScriptRun(NoWidgets)

\* the user picks another year in the sidebar
SelectYear ==
    /\ Interactive
    /\ \E y \in Range(years(df.rows)) \ {widgets.selected_year} :
         ScriptRun([widgets EXCEPT !.selected_year = y])

\* the user picks another category; "Select Metric" is a new widget when its options change
SelectClass ==
    /\ Interactive
    /\ \E c \in Range(classes(df.rows)) \ {widgets.selected_class} :
         ScriptRun([widgets EXCEPT
            !.selected_class = c,
            !.selected_question =
                IF questions(df.rows, c) = questions(df.rows, widgets.selected_class)
                THEN @ ELSE None])

\* the user goes to another view
Navigate ==
    /\ Interactive
    /\ \E v \in Range(options) \ {widgets.selection} :
         ScriptRun([widgets EXCEPT !.selection = v, !.selected_question = None,
                                   !.selected_demo = None])

\* the user picks another metric in the ranking or the demographic view
SelectQuestion ==
    /\ Interactive
    /\ widgets.selection \in {options[4], options[5]}
    /\ \E q \in Range(questions(df.rows, widgets.selected_class)) \ {widgets.selected_question} :
         ScriptRun([widgets EXCEPT !.selected_question = q])

\* the user picks another demographic category
SelectDemo ==
    /\ Interactive
    /\ widgets.selection = options[5]
    /\ \E d \in Range(demo_cats) \ {widgets.selected_demo} :
         ScriptRun([widgets EXCEPT !.selected_demo = d])


----------------------------------------------------------------------------
(* The files an entry point may find.                                       *)

MaxRows == 2

\* columns a raw extract may hold besides the required ones
ExtraCols == {"YearEnd", "Year"}
AllRawColumns == <<"YearEnd", "Year">> \o cols_to_keep

\* the raw extracts: at most one required column absent, any extra columns, at
\* most MaxRawRows rows; Data_Value and Topic may be missing in a row
RawColumnSets ==
    {(Range(cols_to_keep) \ gone) \cup extra :
        gone \in {{}} \cup {{c} : c \in Range(cols_to_keep)},
        extra \in SUBSET ExtraCols}

RawRow(columns, value, topic) ==
    [c \in columns |-> IF c = "Data_Value" THEN value
                       ELSE IF c = "Topic" THEN topic
                       ELSE IF c \in {"YearStart", "YearEnd", "Year"} THEN "2020"
                       ELSE "x"]

RawFiles ==
    {NoFile} \cup
    {[exists |-> TRUE,
      columns |-> SelectSeq(AllRawColumns, LAMBDA c : c \in columns),
      rows |-> [i \in 1..Len(cells) |-> RawRow(columns, cells[i][1], cells[i][2])]] :
        columns \in RawColumnSets,
        cells \in SeqsUpTo({NaN, "30.0", "40.0"} \X {NaN, "Obesity"}, MaxRawRows)}

StateName(abbr) == IF abbr = "AL" THEN "Alabama" ELSE IF abbr = "AK" THEN "Alaska" ELSE abbr

Row(y, c, q, sc, s1, abbr, v) ==
    [Year |-> y, Class |-> c, Question |-> q, StratificationCategory1 |-> sc,
     Stratification1 |-> s1, LocationAbbr |-> abbr, LocationDesc |-> StateName(abbr),
     Data_Value |-> v]

Years == {2020, 2021}
Values == {30, 40}
Strata == {<<"Total", "Total">>, <<"Income", "Less than $15,000">>}

\* rows for the trend queries: obesity rows of either year, stratum and value, and
\* 'Total' rows of a second class and of a second question of the first class
TrendRows ==
    {Row(y, c_obesity, q_obesity, st[1], st[2], "AL", v) :
        y \in Years, st \in Strata, v \in Values}
    \cup {Row(y, c_activity, q_inactivity, "Total", "Total", "AL", 30) : y \in Years}
    \cup {Row(2020, c_obesity, q_inactivity, "Total", "Total", "AL", 40)}

\* rows for the ranking: rows the ranking keeps, of either year, state and value,
\* and rows that fail one condition of its filter
GeoRows ==
    {Row(y, c_obesity, q_obesity, "Total", "Total", a, v) :
        y \in Years, a \in {"AL", "AK"}, v \in Values}
    \cup {Row(2021, c_obesity, q_obesity, "Income", "Less than $15,000", "AL", 40),
          Row(2021, c_activity, q_obesity, "Total", "Total", "AL", 40),
          Row(2021, c_obesity, q_inactivity, "Total", "Total", "AL", 40)}

\* n rows the ranking keeps, one per state, with n distinct values
StateNames ==
    << "S01", "S02", "S03", "S04", "S05", "S06", "S07", "S08", "S09", "S10", "S11",
       "S12", "S13", "S14", "S15", "S16", "S17", "S18", "S19", "S20", "S21", "S22" >>

BigTable(n) ==
    [i \in 1..n |-> Row(2021, c_obesity, q_obesity, "Total", "Total", StateNames[i],
                        IF i % 2 = 0 THEN 30 + i ELSE 30 - i)]

\* rows for the correlation: both metrics for either state and value in 2021, and
\* rows of another year or stratum
CorrRows ==
    {Row(2021, cq[1], cq[2], "Total", "Total", a, v) :
        cq \in {<<c_obesity, q_obesity>>, <<c_activity, q_inactivity>>},
        a \in {"AL", "AK"}, v \in Values}
    \cup {Row(2020, c_obesity, q_obesity, "Total", "Total", "AL", 30),
          Row(2020, c_obesity, q_inactivity, "Total", "Total", "AL", 30),
          Row(2021, c_obesity, q_obesity, "Income", "Less than $15,000", "AK", 30)}

CleanedFiles(rows) ==
    {[exists |-> FALSE, rows |-> <<>>]}
    \cup {[exists |-> TRUE, rows |-> t] : t \in SeqsUpTo(rows, MaxRows)}

InitClean == \E file \in RawFiles : Start("clean", file, [exists |-> FALSE, rows |-> <<>>], FALSE)

InitBatch(files) ==
    \E file \in files, dir \in BOOLEAN : Start("batch", NoFile, file, dir)

InitDash(files) ==
    \E file \in files : Start("dash", NoFile, file, FALSE)

NextClean == CleanReadCsv \/ CleanDropNa \/ CleanCheckColumns \/ CleanSave

NextBatch ==
    \/ BatchMakeDirs \/ BatchReadCsv \/ BatchTemporalTrends \/ BatchGeographic
    \/ BatchDemographic \/ BatchCorrelation

NextDash ==
    \/ DashStart \/ SelectYear \/ SelectClass \/ Navigate \/ SelectQuestion \/ SelectDemo

TrendFiles == CleanedFiles(TrendRows)

GeoFiles ==
    CleanedFiles(GeoRows)
    \cup {[exists |-> TRUE, rows |-> BigTable(n)] : n \in (2 * TopN - 1)..(2 * TopN + MaxRows - 1)}

CorrFiles == CleanedFiles(CorrRows)

NextQuery == NextBatch \/ NextDash

\* every entry point: clean_data on the raw extracts, the consumers on the trend files
Init == InitClean \/ InitBatch(TrendFiles) \/ InitDash(TrendFiles)
Next == NextClean \/ NextQuery
Spec == Init /\ [][Next]_vars

\* clean_data alone
SpecClean == InitClean /\ [][NextClean]_vars

\* the two consumers of the queries, on the files of the trend queries
InitTrend == InitBatch(TrendFiles) \/ InitDash(TrendFiles)
SpecTrend == InitTrend /\ [][NextQuery]_vars

\* the two consumers, on the files of the ranking
InitGeo == InitBatch(GeoFiles) \/ InitDash(GeoFiles)
SpecGeo == InitGeo /\ [][NextQuery]_vars

\* the two consumers, on the files of the correlation
InitCorr == InitBatch(CorrFiles) \/ InitDash(CorrFiles)
SpecCorr == InitCorr /\ [][NextQuery]_vars

\* a dashboard session
InitSession == InitDash(TrendFiles)
SpecDash == InitSession /\ [][NextDash]_vars

----------------------------------------------------------------------------
(* Properties of clean_data.                                                *)

HasAllRequired(file) == file.exists /\ Range(cols_to_keep) \subseteq Range(file.columns)

\* the positions of the raw rows whose Data_Value is present, ascending
PresentPositions(file) ==
    SelectSeq([i \in 1..Len(file.rows) |-> i], LAMBDA i : ~isna(file.rows[i]["Data_Value"]))

CleanedName(c) == IF c = "YearStart" THEN "Year" ELSE c

\* C1: for a raw table with all 11 required columns clean_data writes exactly the raw
\* rows whose Data_Value is present, in their original order (no other missing cell
\* removes a row), so the cleaned table is never longer than the raw one
C1_RowsWithDataValueKept ==
    (prog = "clean" /\ pc = "end" /\ HasAllRequired(rawCsv)) =>
        LET kept == PresentPositions(rawCsv)
            out  == outputCsv.rows
        IN  /\ outputCsv.exists
            /\ Len(out) = Len(kept)
            /\ Len(out) <= Len(rawCsv.rows)
            /\ \A k \in 1..Len(out) : \A c \in Range(cols_to_keep) :
                   out[k][CleanedName(c)] = rawCsv.rows[kept[k]][c]

\* a run that dropped a row without Data_Value and kept two rows, one of them with a
\* missing Topic
C1_Witness ==
    /\ prog = "clean" /\ pc = "end" /\ outputCsv.exists
    /\ Len(outputCsv.rows) = 2
    /\ Len(rawCsv.rows) = 3
    /\ isna(rawCsv.rows[2]["Data_Value"])
    /\ isna(outputCsv.rows[1]["Topic"])
    /\ outputCsv.rows[1]["Data_Value"] # outputCsv.rows[2]["Data_Value"]

CleanedSchema ==
    {"Year", "LocationAbbr", "LocationDesc", "Class", "Topic", "Question", "Data_Value",
     "Data_Value_Unit", "StratificationCategory1", "Stratification1", "GeoLocation"}

\* C2: a file clean_data writes has exactly the columns of the cleaned schema, with
\* Year and without YearStart, whatever other columns the raw table had
C2_OutputSchema ==
    outputCsv.exists =>
        /\ Range(outputCsv.columns) = CleanedSchema
        /\ Len(outputCsv.columns) = Cardinality(CleanedSchema)
        /\ \A k \in 1..Len(outputCsv.rows) : DOMAIN outputCsv.rows[k] = CleanedSchema
        /\ "Year" \in Range(outputCsv.columns)
        /\ "YearStart" \notin Range(outputCsv.columns)

\* a file written from a raw table that also had the columns YearEnd and Year
C2_Witness ==
    /\ outputCsv.exists
    /\ {"YearEnd", "Year", "YearStart"} \subseteq Range(rawCsv.columns)
    /\ Len(outputCsv.rows) > 0

\* C3: on a raw table that lacks one required column clean_data ends in a failure
\* surfaced to its caller, not in a normal return, and writes no file
C3_FailsOnMissingColumn ==
    (prog = "clean" /\ pc = "end" /\ rawCsv.exists /\ ~HasAllRequired(rawCsv)) =>
        /\ outcome # "returned"
        /\ ~outputCsv.exists

----------------------------------------------------------------------------
(* Properties of the entry points on a missing input file.                  *)

\* C7: with its input file absent an entry point reports the error and produces
\* nothing: clean_data writes no file, analyze_data fails with file-not-found and
\* creates neither an image nor the output directory, the dashboard shows an error
\* and neither a filter nor a view
C7_NoOutputWithoutInput ==
    /\ [](prog = "clean" /\ ~rawCsv.exists =>
            /\ ~outputCsv.exists
            /\ pc = "end" => "Error: File not found" \in Range(stdout))
    /\ [](prog = "batch" /\ ~cleanedCsv.exists =>
            /\ artifacts = {}
            /\ pc = "end" => outcome = "raised:FileNotFoundError")
    /\ [][prog = "batch" /\ ~cleanedCsv.exists => outDir' = outDir]_vars
    /\ [](prog = "dash" /\ ~cleanedCsv.exists /\ pc = "idle" =>
            page.elements = {"title", "error: not found"})

----------------------------------------------------------------------------
(* Properties of the queries.                                               *)

Count(s, x) == Cardinality({i \in 1..Len(s) : s[i] = x})

IsPermutation(a, b) ==
    /\ Len(a) = Len(b)
    /\ \A x \in Range(a) \cup Range(b) : Count(a, x) = Count(b, x)

\* analyze_data has printed the line
Printed(line) == prog = "batch" /\ line \in Range(stdout)

\* the dashboard shows the view
Shows(view) == prog = "dash" /\ pc = "idle" /\ ~df.none /\ widgets.selection = view

\* result is the trend of rows by the columns of by: one row for each group with a
\* 'Total' row and none for another, the exact mean of the group's 'Total' rows, Year
\* ascending
IsTrendOf(result, rows, by) ==
    LET total    == SelectSeq(rows, LAMBDA r : r.StratificationCategory1 = "Total")
        group(k) == SelectSeq(total, LAMBDA r : KeyOf(r, by) = k)
    IN  /\ \A k \in {KeyOf(r, by) : r \in Range(rows)} :
               Cardinality({i \in 1..Len(result) : KeyOf(result[i], by) = k})
                   = IF group(k) # <<>> THEN 1 ELSE 0
        /\ \A i \in 1..Len(result) :
               LET g == group(KeyOf(result[i], by))
               IN  /\ g # <<>>
                   /\ result[i].Data_Value.den > 0
                   /\ result[i].Data_Value.num * Len(g)
                          = result[i].Data_Value.den * Sum(Column(g, "Data_Value"))
        /\ \A i, j \in 1..Len(result) : i < j => result[i].Year <= result[j].Year

\* C4: the temporal-trend query (batch: by (Year, Class); dashboard: the selected
\* class by (Year, Question)) returns one row for each group with a 'Total' row and
\* none for another group, with the mean of exactly the group's 'Total' rows, ordered
\* by Year ascending
C4_TrendIsMeanOfTotalRows ==
    /\ Printed("Analyzing Temporal Trends...") =>
           IsTrendOf(batch.yearly_trends, df.rows, <<"Year", "Class">>)
    /\ Shows(options[3]) =>
           IsTrendOf(page.trend_data,
                     SelectSeq(df.rows, LAMBDA r : r.Class = widgets.selected_class),
                     <<"Year", "Question">>)

\* the batch trend of two 'Total' rows 30 and 40 of one group: one row, 35
C4_Witness ==
    /\ Printed("Analyzing Temporal Trends...")
    /\ Len(df.rows) = 2
    /\ df.rows[1].Data_Value # df.rows[2].Data_Value
    /\ Len(batch.yearly_trends) = 1
    /\ batch.yearly_trends[1].Data_Value = [num |-> 35, den |-> 1]

\* result holds exactly the rows of kept, Data_Value never increasing, strictly
\* decreasing when the values are pairwise distinct
IsRankingOf(result, kept) ==
    /\ IsPermutation(result, kept)
    /\ \A i \in 1..(Len(result) - 1) : result[i].Data_Value >= result[i + 1].Data_Value
    /\ (\A i, j \in 1..Len(kept) : i # j => kept[i].Data_Value # kept[j].Data_Value)
           => \A i \in 1..(Len(result) - 1) :
                  result[i].Data_Value > result[i + 1].Data_Value

\* the rows of year y and question q in the 'Total' stratum
TotalRowsOf(rows, y, q) ==
    SelectSeq(rows, LAMBDA r : /\ r.Year = y /\ r.Question = q
                               /\ r.StratificationCategory1 = "Total")

\* C5 as stated: in both consumers the ranking is a permutation of exactly the rows
\* with Year == y, Question == q and stratum 'Total', in descending Data_Value order
C5_RankingOfYearQuestionTotal ==
    /\ Printed("Latest year in dataset") =>
           IsRankingOf(batch.obesity_geo_sorted,
                       TotalRowsOf(df.rows, batch.latest_year, q_obesity))
    /\ Shows(options[4]) =>
           IsRankingOf(page.df_geo,
                       TotalRowsOf(df.rows, widgets.selected_year, widgets.selected_question))

\* C5 amended: the batch ranking keeps, of those rows, the ones whose Class is
\* 'Obesity / Weight Status'; the dashboard ranking keeps them all
C5_RankingOfFilteredRows ==
    /\ Printed("Latest year in dataset") =>
           IsRankingOf(batch.obesity_geo_sorted,
                       SelectSeq(TotalRowsOf(df.rows, batch.latest_year, q_obesity),
                                 LAMBDA r : r.Class = c_obesity))
    /\ Shows(options[4]) =>
           IsRankingOf(page.df_geo,
                       TotalRowsOf(df.rows, widgets.selected_year, widgets.selected_question))

\* a batch ranking of two rows that the table holds in ascending order
C5_Witness ==
    /\ Printed("Latest year in dataset")
    /\ Len(df.rows) = 2
    /\ df.rows[1].Data_Value < df.rows[2].Data_Value
    /\ Len(batch.obesity_geo_sorted) = 2
    /\ batch.obesity_geo_sorted[1] = df.rows[2]

IsLatestYear(y, rows) ==
    /\ \E r \in Range(rows) : r.Year = y
    /\ \A r \in Range(rows) : r.Year <= y

\* C8: the year of a query that defaults to the most recent year is max(Year) over
\* all rows of the cleaned table, also when no row of that year passes the query's
\* filter, and then the result is empty: the batch ranking and correlation, and the
\* year the dashboard selects when the session starts
C8_LatestYearOfWholeTable ==
    /\ [](Printed("Latest year in dataset") /\ df.rows # <<>> =>
            /\ IsLatestYear(batch.latest_year, df.rows)
            /\ \A i \in 1..Len(batch.obesity_geo_sorted) :
                   IsLatestYear(batch.obesity_geo_sorted[i].Year, df.rows)
            /\ TotalRowsOf(df.rows, batch.latest_year, q_obesity) = <<>>
                   => batch.obesity_geo_sorted = <<>>)
    /\ [](Printed("Analyzing Correlations...") /\ df.rows # <<>> =>
            \/ batch.merged = <<>>
            \/ /\ TotalRowsOf(df.rows, batch.latest_year, q_obesity) # <<>>
               /\ TotalRowsOf(df.rows, batch.latest_year, q_inactivity) # <<>>)
    /\ [][prog = "dash" /\ pc = "start" /\ cleanedCsv.exists /\ cleanedCsv.rows # <<>>
              => IsLatestYear(widgets'.selected_year, cleanedCsv.rows)]_vars

\* a batch run whose table has a ranking row in 2020 only and another row in 2021:
\* the latest year is 2021 and the ranking is empty
C8_Witness ==
    /\ Printed("Latest year in dataset")
    /\ batch.latest_year = 2021
    /\ batch.obesity_geo_sorted = <<>>
    /\ obesity_geo(df.rows, 2020) # <<>>

OnePerState(result) ==
    \A i, j \in 1..Len(result) : i # j => result[i].LocationDesc # result[j].LocationDesc

ShareState(a, b) == \E x \in Range(a), y \in Range(b) : x.LocationDesc = y.LocationDesc

\* C9 as stated: the ranking holds at most one row per state whatever the cleaned
\* table holds, and the batch top-10 and bottom-10 share a state only when the
\* ranking has fewer than 20 rows
C9_OneRowPerState ==
    /\ Printed("Latest year in dataset") =>
           /\ OnePerState(batch.obesity_geo_sorted)
           /\ ShareState(batch.top_10, batch.bottom_10)
                  => Len(batch.obesity_geo_sorted) < 2 * TopN
    /\ Shows(options[4]) => OnePerState(page.df_geo)

\* C9 amended: the ranking holds one row for each row of the cleaned table that
\* passes the filter, so at most one row per state when the table holds at most one
\* such row per state; then the batch top-10 and bottom-10 share a state only when
\* the ranking has fewer than 20 rows
C9_OneRowPerFilteredRow ==
    /\ Printed("Latest year in dataset") =>
           LET kept == SelectSeq(TotalRowsOf(df.rows, batch.latest_year, q_obesity),
                                 LAMBDA r : r.Class = c_obesity)
           IN  /\ Len(batch.obesity_geo_sorted) = Len(kept)
               /\ OnePerState(kept) =>
                      /\ OnePerState(batch.obesity_geo_sorted)
                      /\ ShareState(batch.top_10, batch.bottom_10)
                             => Len(batch.obesity_geo_sorted) < 2 * TopN
    /\ Shows(options[4]) =>
           LET kept == TotalRowsOf(df.rows, widgets.selected_year, widgets.selected_question)
           IN  /\ Len(page.df_geo) = Len(kept)
               /\ OnePerState(kept) => OnePerState(page.df_geo)

\* a batch ranking of 20 states: the top 10 and the bottom 10 share none
C9_Witness ==
    /\ Printed("Latest year in dataset")
    /\ Len(batch.obesity_geo_sorted) = 2 * TopN
    /\ OnePerState(batch.obesity_geo_sorted)
    /\ Len(batch.top_10) = TopN /\ Len(batch.bottom_10) = TopN
    /\ ~ShareState(batch.top_10, batch.bottom_10)

\* C6: when the join of the obesity and the inactivity table of the chosen year has
\* no row, both consumers end in a not-computable outcome: no coefficient is
\* computed, printed or rendered as if valid, and the run does not crash
C6_EmptyJoinNotComputable ==
    /\ Printed("Analyzing Correlations...") /\ batch.merged = <<>> =>
           /\ outcome = "returned"
           /\ \A line \in Range(stdout) : line \notin {"Correlation: nan", "Correlation: number"}
           /\ "correlation_obesity_inactivity.png" \notin artifacts
    /\ Shows(options[6]) /\ correlation_join(df.rows, widgets.selected_year) = <<>> =>
           /\ "metric: Correlation Coefficient" \notin page.elements
           /\ \/ "warning: Not enough data" \in page.elements
              \/ "warning: Required data not found" \in page.elements

\* C6 for the dashboard alone
C6_DashboardDeclines ==
    Shows(options[6]) /\ correlation_join(df.rows, widgets.selected_year) = <<>> =>
        /\ "metric: Correlation Coefficient" \notin page.elements
        /\ \/ "warning: Not enough data" \in page.elements
           \/ "warning: Required data not found" \in page.elements

\* C10: in a dashboard session the cleaned table is read from the file at most
\* once, on the first run of the script, and no change of a filter and no render of
\* a view changes it: after every run the table in use is the one the file held
C10_LoadedOnceNeverChanged ==
    /\ fileReads <= 1
    /\ prog = "dash" /\ pc = "idle" /\ cleanedCsv.exists =>
           /\ fileReads = 1
           /\ df = Loaded(cleanedCsv.rows)
           /\ cache.set /\ cache.value = df

\* the ranking of an earlier year, reached by changing the year and the view
C10_Witness ==
    /\ Shows(options[4])
    /\ widgets.selected_year # year_max(df.rows)
    /\ page.df_geo # <<>>
    /\ fileReads = 1

\* the join has at least two matched locations and neither value column is constant
Computable(merged) ==
    /\ Len(merged) >= 2
    /\ \E i, j \in 1..Len(merged) : merged[i].Obesity_Rate # merged[j].Obesity_Rate
    /\ \E i, j \in 1..Len(merged) : merged[i].Inactivity_Rate # merged[j].Inactivity_Rate

\* C11: whenever the dashboard correlation view displays a correlation coefficient,
\* it is a defined number and not NaN (the join has at least two matched locations
\* and neither value column is constant); in every other case, one matched location
\* included, the view reports the not-computable outcome instead of a coefficient
C11_DisplayedCoefficientComputable ==
    Shows(options[6]) =>
        LET merged == correlation_join(df.rows, widgets.selected_year)
        IN  IF "metric: Correlation Coefficient" \in page.elements
            THEN /\ Computable(page.merged)
                 /\ ~page.corr_coeff.nan
                 /\ fmt2f(page.corr_coeff).text # "nan"
            ELSE /\ ~Computable(merged)
                 /\ \/ "warning: Not enough data" \in page.elements
                    \/ "warning: Required data not found" \in page.elements

=============================================================================
